---- MODULE Spec2Model ----
(***************************************************************************)
(* NewsWhizz Flask backend (src/FlaskAPI.py): the news fetcher with its    *)
(* one-shot fallback, the /news, /tts and /briefing handlers, and the      *)
(* temporary audio files the two audio handlers create and delete.         *)
(*                                                                         *)
(* Python values are modelled as follows.  A JSON string is a string; a    *)
(* key that is missing from a JSON object is Absent; JSON null (Python     *)
(* None) is Null.  A value that may be a list or None is a record          *)
(* [kind, items].  A raised exception is the "exc" field of a result.      *)
(***************************************************************************)
EXTENDS Integers, Sequences, FiniteSets, TLC

VARIABLES fetch, news, item, req, disk

vars == <<fetch, news, item, req, disk>>

----------------------------------------------------------------------------
(* Bounds of the model *)

MaxArticles == 2
MaxLimit == 2
NReq == 2
NNames == 2

----------------------------------------------------------------------------
(* JSON / Python values *)

Absent == "<absent>"
Null == "<null>"

\* Python truthiness of a string-or-None value: None and "" are falsy.
Truthy(v) == v # Null /\ v # ""

\* dict.get(key, default) on a field that may be missing.
Get(v, default) == IF v = Absent THEN default ELSE v

\* dict.get(key): None when the key is missing.
GetNone(v) == Get(v, Null)

\* Python `a or b`.
Or(a, b) == IF Truthy(a) THEN a ELSE b

\* A list-or-None value, as fetch_news can return it.
PyList(items) == [kind |-> "list", items |-> items]
PyNone == [kind |-> "null", items |-> <<>>]

\* `articles == []` in place of `not articles`: None is not taken as empty.
EmptyStrict(v) == v.kind = "list" /\ Len(v.items) = 0

\* Python `not articles` on a list-or-None value.
Empty(v) == v.kind = "null" \/ Len(v.items) = 0

----------------------------------------------------------------------------
(* What the news provider can answer *)

TitleVals == {Absent, Null, "", "T"}
DescVals == {Absent, Null, "", "D"}
ContentVals == {Absent, Null, "", "C"}
SourceVals == {Absent, Null, "{}", "{name}"}

\* Every article record the provider can return, field by field.
Articles ==
    [title : TitleVals, description : DescVals, content : ContentVals,
     source : SourceVals]

FullArticle ==
    [title |-> "T", description |-> "D", content |-> "C", source |-> "{name}"]
BareArticle ==
    [title |-> Absent, description |-> Null, content |-> "", source |-> Absent]

\* The articles that the lists of a provider response are built from.
ArticlePool == {FullArticle, BareArticle}

ArticleLists == UNION {[1..n -> ArticlePool] : n \in 0..MaxArticles}

\* A provider response: the request timed out or the connection failed,
\* the body is not JSON, the body is JSON but not an object, or the body is
\* an object with a status and an articles field (missing, null or a list).
FailedResponses ==
    {[kind |-> k, status |-> Absent, akind |-> "absent", items |-> <<>>] :
        k \in {"neterror", "malformed", "nonobject"}}
ObjectResponses ==
    {[kind |-> "object", status |-> s, akind |-> "list", items |-> l] :
        s \in {"ok", "error"}, l \in ArticleLists}
    \cup
    {[kind |-> "object", status |-> s, akind |-> a, items |-> <<>>] :
        s \in {"ok", "error"}, a \in {"absent", "null"}}
Responses == FailedResponses \cup ObjectResponses

\* data.get("articles") is truthy.
HasArticles(p) == p.akind = "list" /\ Len(p.items) > 0

----------------------------------------------------------------------------
(* fetch_news *)

DefaultLimit == 5

PrimaryCall(category, region, limit) ==
    [endpoint |-> "top-headlines", country |-> region, category |-> category,
     q |-> <<>>, language |-> Absent, pageSize |-> limit]

FallbackCall(category, limit) ==
    [endpoint |-> "everything", country |-> Absent, category |-> Absent,
     q |-> <<category, " news">>, language |-> "en", pageSize |-> limit]

\* requests.get(...) or resp.json() raises, or data.get raises because the
\* decoded body is not a dict: all are caught by `except Exception`.
Raises(p) == p.kind # "object"

\* Line 44 with `or` in place of `and`.
TakesFallbackEither(p) == ~(p.status = "ok" \/ HasArticles(p))

\* The condition of line 44, negated: the else branch is taken.
TakesFallback(p) == ~(p.status = "ok" /\ HasArticles(p))

\* data2.get("articles", [])
FallbackArticles(p) ==
    CASE p.akind = "absent" -> PyList(<<>>)
      [] p.akind = "null" -> PyNone
      [] OTHER -> PyList(p.items)

\* The value fetch_news returns and the provider calls it makes, given the
\* provider's answer p1 to the primary call and p2 to the fallback call.
FetchNews(category, region, limit, p1, p2) ==
    LET c1 == PrimaryCall(category, region, limit)
        c2 == FallbackCall(category, limit)
    IN  IF Raises(p1)
          THEN [ret |-> PyList(<<>>), calls |-> <<c1>>]
        ELSE IF ~TakesFallback(p1)
          THEN [ret |-> PyList(p1.items), calls |-> <<c1>>]
        ELSE IF Raises(p2)
          THEN [ret |-> PyList(<<>>), calls |-> <<c1, c2>>]
        ELSE [ret |-> FallbackArticles(p2), calls |-> <<c1, c2>>]

----------------------------------------------------------------------------
(* Values of the variables a specification does not use *)

NoFetch == [pc |-> "unused"]
NoNews == [pc |-> "unused"]
NoItem == [pc |-> "unused"]
NoReq == [r \in 1..NReq |-> [pc |-> "unused"]]
NoDisk == [n \in 1..NNames |-> [owner |-> 0, data |-> 0]]

----------------------------------------------------------------------------
(* SpecFetch: fetch_news applied to every input and provider behaviour *)

FetchCategories == {"general", "sports"}
FetchRegions == {"in"}

InitFetch ==
    /\ fetch \in [pc : {"call"}, category : FetchCategories,
                  region : FetchRegions, limit : 1..MaxLimit,
                  primary : Responses, fallback : Responses,
                  ret : {PyNone}, calls : {<<>>}]
    /\ news = NoNews
    /\ item = NoItem
    /\ req = NoReq
    /\ disk = NoDisk

CallFetchNews ==
    /\ fetch.pc = "call"
    /\ LET out == FetchNews(fetch.category, fetch.region, fetch.limit,
                            fetch.primary, fetch.fallback)
       IN  fetch' = [fetch EXCEPT !.pc = "returned", !.ret = out.ret,
                                  !.calls = out.calls]
    /\ UNCHANGED <<news, item, req, disk>>

NextFetch == CallFetchNews

SpecFetch == InitFetch /\ [][NextFetch]_vars

\* C7: fetch_news always returns a sequence (never None), and returns the
\* empty sequence whenever the primary call, or the fallback call it went
\* on to make, failed with a network or parse error.
C7_FetchReturnsSequence ==
    fetch.pc = "returned" =>
        /\ fetch.ret.kind = "list"
        /\ Raises(fetch.primary) => fetch.ret = PyList(<<>>)
        /\ (Len(fetch.calls) = 2 /\ Raises(fetch.fallback))
               => fetch.ret = PyList(<<>>)

\* C8: the fallback call is made exactly when the primary response was
\* received as a JSON object whose status is not "ok" or whose articles are
\* empty, null or missing; it is the second and last provider call, it
\* follows the primary call and asks for the same page size; what the
\* fallback response holds under "articles" is returned unchanged.
C8_FallbackPolicy ==
    fetch.pc = "returned" =>
        LET p1 == fetch.primary
            p2 == fetch.fallback
            calls == fetch.calls
            issued == {i \in 1..Len(calls) : calls[i].endpoint = "everything"}
            noArticles == p1.akind \in {"absent", "null"} \/ p1.items = <<>>
        IN  /\ Len(calls) \in {1, 2}
            /\ calls[1].endpoint = "top-headlines"
            /\ calls[1].pageSize = fetch.limit
            /\ issued # {} <=>
                   (p1.kind = "object" /\ (p1.status # "ok" \/ noArticles))
            /\ issued \subseteq {2}
            /\ issued # {} => calls[2].pageSize = calls[1].pageSize
            /\ issued # {} => calls[2].q = <<fetch.category, " news">>
            /\ (issued # {} /\ p2.kind = "object") =>
                   /\ p2.akind = "list" => fetch.ret = PyList(p2.items)
                   /\ p2.akind = "null" => fetch.ret = PyNone
                   /\ p2.akind = "absent" => fetch.ret = PyList(<<>>)
            /\ (p1.kind # "object") => issued = {}

\* The primary response is "ok" but empty, the fallback is made and its
\* articles are what fetch_news returns.
C8_Witness ==
    /\ fetch.pc = "returned"
    /\ fetch.primary.kind = "object"
    /\ fetch.primary.status = "ok"
    /\ fetch.primary.akind = "list"
    /\ fetch.primary.items = <<>>
    /\ Len(fetch.calls) = 2
    /\ fetch.calls[2].endpoint = "everything"
    /\ fetch.fallback.akind = "list"
    /\ Len(fetch.fallback.items) = MaxArticles
    /\ fetch.ret = PyList(fetch.fallback.items)

----------------------------------------------------------------------------
(* summarize_article and the per-article steps of the two handlers *)

LANG_MAP == [English |-> "en", Tamil |-> "ta", Hindi |-> "hi"]

valid_categories ==
    {"general", "business", "technology", "sports", "entertainment",
     "science", "health"}

\* summarize_article never raises: it returns the model's text, or an error
\* string when the completion call fails.  llm is the state of the
\* completion service during the request.
SummarizeArticle(text, language, llm) ==
    IF llm = "up" THEN <<"summary", text, language>>
    ELSE <<"error generating summary">>

\* Lines 126-128: title, source name and the text given to the summarizer.
\* article.get("source", {}) is None when the provider sends "source": null,
\* and .get on it raises AttributeError.
ListingArticle(a) ==
    LET title == Get(a.title, "Untitled")
        src == Get(a.source, "{}")
    IN  [exc |-> IF src = Null THEN "AttributeError" ELSE "none",
         title |-> title,
         source |-> IF src = "{name}" THEN "S" ELSE "Unknown",
         text |-> Or(Or(GetNone(a.description), GetNone(a.content)), title)]

\* Line 199: a["title"] raises KeyError when the key is missing.
BriefingArticle(a) ==
    LET d == GetNone(a.description)
        c == GetNone(a.content)
    IN  IF Truthy(d) THEN [exc |-> "none", text |-> d]
        ELSE IF Truthy(c) THEN [exc |-> "none", text |-> c]
        ELSE IF a.title = Absent THEN [exc |-> "KeyError", text |-> Null]
        ELSE [exc |-> "none", text |-> a.title]

\* The index of the first article whose step raises, or 0; excs holds, for
\* each article, the exception of its step ("none" when it raises nothing).
FirstRaise(excs) ==
    LET bad == {i \in 1..Len(excs) : excs[i] # "none"}
    IN  IF bad = {} THEN 0
        ELSE CHOOSE i \in bad : \A j \in bad : i <= j

----------------------------------------------------------------------------
(* get_news *)

\* The limit query parameter: missing, not a number, or a number.
LimitArgs ==
    {[kind |-> "absent", val |-> 0], [kind |-> "text", val |-> 0]}
    \cup {[kind |-> "int", val |-> n] : n \in 0..MaxLimit}

\* int(request.args.get("limit", 5))
ParseLimit(l) ==
    CASE l.kind = "absent" -> [exc |-> "none", val |-> DefaultLimit]
      [] l.kind = "text" -> [exc |-> "ValueError", val |-> 0]
      [] OTHER -> [exc |-> "none", val |-> l.val]

NewsResponse(status, error, message, hasArticles, articles, total, texts, calls) ==
    [status |-> status, error |-> error, message |-> message,
     hasArticles |-> hasArticles, articles |-> articles, total |-> total,
     texts |-> texts, calls |-> calls]

\* The response of get_news to the query parameters a, when the provider
\* answers p1 and p2: the status, the JSON body, the texts handed to the
\* summarizer in order and the provider calls made.  total is -1 when the
\* body has no total.
GetNews(a, p1, p2, llm) ==
    LET category == Get(a.category, "general")
        region == Get(a.region, "in")
        language == Get(a.language, "English")
        limit == ParseLimit(a.limit)
        fetched == FetchNews(category, region, limit.val, p1, p2)
        items == fetched.ret.items
        bad == FirstRaise([i \in 1..Len(items) |->
                             ListingArticle(items[i]).exc])
        done == IF bad = 0 THEN Len(items) ELSE bad - 1
        texts == [i \in 1..done |-> ListingArticle(items[i]).text]
        processed ==
            [i \in 1..done |->
                [title |-> ListingArticle(items[i]).title,
                 source |-> ListingArticle(items[i]).source,
                 summary |-> SummarizeArticle(texts[i], language, llm),
                 sentiment |-> "Neutral"]]
    IN  IF limit.exc # "none"
          THEN NewsResponse(500, limit.exc, Absent, FALSE, <<>>, -1, <<>>, <<>>)
        ELSE IF category \notin valid_categories
          THEN NewsResponse(400, "Invalid category", Absent, FALSE, <<>>, -1,
                            <<>>, <<>>)
        ELSE IF language \notin DOMAIN LANG_MAP
          THEN NewsResponse(400, "Unsupported language", Absent, FALSE, <<>>,
                            -1, <<>>, <<>>)
        ELSE IF Empty(fetched.ret)
          THEN NewsResponse(200, Absent, "No news found", TRUE, <<>>, -1,
                            <<>>, fetched.calls)
        ELSE IF fetched.ret.kind = "null"
          THEN NewsResponse(500, "TypeError", Absent, FALSE, <<>>, -1, <<>>,
                            fetched.calls)
        ELSE IF bad # 0
          THEN NewsResponse(500, ListingArticle(items[bad]).exc, Absent, FALSE,
                            <<>>, -1, texts, fetched.calls)
        ELSE NewsResponse(200, Absent, Absent, TRUE, processed,
                          Len(processed), texts, fetched.calls)

----------------------------------------------------------------------------
(* SpecNews: one /news request, for every query string and provider answer *)

CategoryArgs == {Absent, "sports", "politics"}
RegionArgs == {Absent, "us"}
LanguageArgs == {Absent, "Tamil", "French"}
LlmStates == {"up", "down"}

NewsArgs ==
    [category : CategoryArgs, region : RegionArgs, language : LanguageArgs,
     limit : LimitArgs]

InitNews ==
    /\ news \in [pc : {"request"}, args : NewsArgs, primary : Responses,
                 fallback : Responses, llm : LlmStates,
                 resp : {NewsResponse(0, Absent, Absent, FALSE, <<>>, -1,
                                      <<>>, <<>>)}]
    /\ fetch = NoFetch
    /\ item = NoItem
    /\ req = NoReq
    /\ disk = NoDisk

HandleGetNews ==
    /\ news.pc = "request"
    /\ news' = [news EXCEPT
                  !.pc = "responded",
                  !.resp = GetNews(news.args, news.primary, news.fallback,
                                   news.llm)]
    /\ UNCHANGED <<fetch, item, req, disk>>

NextNews == HandleGetNews

SpecNews == InitNews /\ [][NextNews]_vars

\* The category and language the request asks for, with the defaults of a
\* missing parameter.
AskedCategory == Get(news.args.category, "general")
AskedLanguage == Get(news.args.language, "English")
ValidPair ==
    /\ AskedCategory \in valid_categories
    /\ AskedLanguage \in {"English", "Tamil", "Hindi"}

\* The provider answered with a JSON object that holds no article.
ZeroArticles(p) == p.kind = "object" /\ (p.akind # "list" \/ p.items = <<>>)

\* C4: when the provider is asked both the primary and the fallback query
\* and answers both with zero articles (list empty, missing or null), /news
\* with a valid category and language answers 200 with an empty articles
\* array and a message, no error, and calls the summarizer for nothing.
C4_NoNewsIs200 ==
    (/\ news.pc = "responded"
     /\ ValidPair
     /\ Len(news.resp.calls) = 2
     /\ ZeroArticles(news.primary)
     /\ ZeroArticles(news.fallback))
    => /\ news.resp.status = 200
       /\ news.resp.hasArticles
       /\ news.resp.articles = <<>>
       /\ news.resp.message = "No news found"
       /\ news.resp.error = Absent
       /\ news.resp.texts = <<>>

\* The fallback answers "articles": null after an empty primary answer.
C4_Witness ==
    /\ news.pc = "responded"
    /\ ValidPair
    /\ Len(news.resp.calls) = 2
    /\ ZeroArticles(news.primary)
    /\ news.fallback.kind = "object"
    /\ news.fallback.akind = "null"
    /\ news.resp.status = 200
    /\ news.resp.message = "No news found"

\* C5: a category outside the allow-list, or a language outside the
\* language map, is answered 400 whatever region and limit are, with no
\* provider call and no summarizer call.
C5_InvalidInputIs400 ==
    (news.pc = "responded" /\ ~ValidPair)
    => /\ news.resp.status = 400
       /\ news.resp.calls = <<>>
       /\ news.resp.texts = <<>>

\* C6: for a valid category and language the articles array of a 200
\* response is no longer than the limit asked for, whatever the provider
\* returned.  Stated for the requests at the centre of the claim, whose
\* limit is a positive integer and which are answered 200.
C6_AtMostPositiveLimit ==
    (/\ news.pc = "responded"
     /\ ValidPair
     /\ news.args.limit.kind = "int"
     /\ news.args.limit.val >= 1
     /\ news.resp.status = 200)
    => Len(news.resp.articles) <= news.args.limit.val

----------------------------------------------------------------------------
(* SpecContent: the per-article step of /news and of /briefing, applied to
   every article record the provider can return *)

InitContent ==
    /\ item \in [article : Articles, listing : {[pc |-> "todo"]},
                 briefing : {[pc |-> "todo"]}]
    /\ fetch = NoFetch
    /\ news = NoNews
    /\ req = NoReq
    /\ disk = NoDisk

\* Lines 126-130 of get_news on the article.
ListingStep ==
    /\ item.listing.pc = "todo"
    /\ LET out == ListingArticle(item.article)
       IN  item' = [item EXCEPT !.listing =
                       [pc |-> "done", exc |-> out.exc, text |-> out.text]]
    /\ UNCHANGED <<fetch, news, req, disk>>

\* Lines 198-201 of daily_briefing on the article.
BriefingStep ==
    /\ item.briefing.pc = "todo"
    /\ LET out == BriefingArticle(item.article)
       IN  item' = [item EXCEPT !.briefing =
                       [pc |-> "done", exc |-> out.exc, text |-> out.text]]
    /\ UNCHANGED <<fetch, news, req, disk>>

NextContent == ListingStep \/ BriefingStep

SpecContent == InitContent /\ [][NextContent]_vars

\* C9: on every article the listing handler processes, the briefing handler
\* raises nothing and hands the summarizer the same text.
C9_SameContentChain ==
    (/\ item.listing.pc = "done"
     /\ item.briefing.pc = "done"
     /\ item.listing.exc = "none")
    => /\ item.briefing.exc = "none"
       /\ item.briefing.text = item.listing.text

----------------------------------------------------------------------------
(* The audio handlers: state of a request and of the temporary directory *)

Reqs == 1..NReq
Names == 1..NNames

\* A request that has not arrived yet.  path = 0 is temp_file_path = None;
\* disk[n].owner = 0 is "no file named n"; data is the request whose audio
\* the file holds, 0 for an empty file.  fetched is what fetch_news returned
\* to the handler: None, [] or a list with articles.
IdleReq ==
    [pc |-> "idle", handler |-> "none", json |-> "none", text |-> Absent,
     fetched |-> "none", lang |-> "none", status |-> 0,
     error |-> Absent, path |-> 0, fetchCalls |-> 0, sumCalls |-> 0,
     ttsCalls |-> 0, served |-> 0]

\* request.get_json(): the decoded body; None for a JSON null; for a body
\* that is not JSON, None or an abort with 400 or 415, depending on the
\* framework version.
GetJson(json) ==
    CASE json = "object" -> {"dict"}
      [] json = "null" -> {"None"}
      [] OTHER -> {"None", "abort400", "abort415"}

\* LANG_MAP.get(language, "en")
LangCode(language) ==
    IF language \in DOMAIN LANG_MAP THEN LANG_MAP[language] ELSE "en"

\* An error response: the handler returns it and it is closed at once.
\* lang, the language code handed to generate_tts, is a local of that call.
Finished(rec, status, error) ==
    [rec EXCEPT !.pc = "closed", !.status = status, !.error = error,
                !.lang = "none"]

----------------------------------------------------------------------------
(* get_tts, lines 157-166: up to the call of generate_tts *)

TtsBodies ==
    [json : {"object"}, text : {Absent, Null, "", "hello"},
     language : {Absent, "Tamil", "French"}]
    \cup [json : {"null", "notjson"}, text : {Absent}, language : {Absent}]

\* The request record after lines 157-164 for the body, one for each thing
\* get_json can do: an error response, or go = TRUE when generate_tts is to
\* be called.
TtsPrepare(body) ==
    LET rec == [IdleReq EXCEPT !.handler = "tts", !.json = body.json,
                               !.text = body.text]
        text == GetNone(body.text)
        language == Get(body.language, "English")
    IN  {[go |-> FALSE,
          rec |-> CASE data = "abort400" -> Finished(rec, 400, "Bad Request")
                    [] data = "abort415" ->
                           Finished(rec, 415, "Unsupported Media Type")
                    [] data = "None" -> Finished(rec, 500, "AttributeError")
                    [] OTHER ->
                           Finished(rec, 400, "Missing 'text' in request")] :
            data \in {d \in GetJson(body.json) : d # "dict" \/ ~Truthy(text)}}
        \cup
        {[go |-> TRUE, rec |-> [rec EXCEPT !.lang = LangCode(language)]] :
            data \in {d \in GetJson(body.json) : d = "dict" /\ Truthy(text)}}

TtsOutcomes == UNION {TtsPrepare(body) : body \in TtsBodies}

----------------------------------------------------------------------------
(* daily_briefing, lines 187-208: up to the call of generate_tts *)

BriefingBodies ==
    [json : {"object"}, category : {Absent, "sports"}, region : {Absent},
     language : {Absent, "Hindi"},
     limit : {[kind |-> "absent", val |-> 0], [kind |-> "int", val |-> 1]}]
    \cup [json : {"null", "notjson"}, category : {Absent}, region : {Absent},
          language : {Absent}, limit : {[kind |-> "absent", val |-> 0]}]

\* data.get("limit", 5)
BodyLimit(l) == IF l.kind = "absent" THEN DefaultLimit ELSE l.val

\* The request record after lines 187-206 for the body and the provider's
\* answers p1 and p2.
BriefingPrepare(body, p1, p2, llm) ==
    LET rec == [IdleReq EXCEPT !.handler = "briefing", !.json = body.json]
        category == Get(body.category, "general")
        region == Get(body.region, "in")
        language == Get(body.language, "English")
        fetched == FetchNews(category, region, BodyLimit(body.limit), p1, p2)
        items == fetched.ret.items
        got == [rec EXCEPT !.fetchCalls = 1,
                           !.fetched = IF fetched.ret.kind = "null" THEN "None"
                                       ELSE IF Len(items) = 0 THEN "[]"
                                       ELSE "articles"]
        bad == FirstRaise([i \in 1..Len(items) |->
                             BriefingArticle(items[i]).exc])
        done == IF bad = 0 THEN Len(items) ELSE bad - 1
        summaries ==
            [i \in 1..done |->
                SummarizeArticle(BriefingArticle(items[i]).text, language, llm)]
    IN  {[go |-> FALSE,
          rec |-> CASE data = "abort400" -> Finished(rec, 400, "Bad Request")
                    [] data = "abort415" ->
                           Finished(rec, 415, "Unsupported Media Type")
                    [] data = "None" -> Finished(rec, 500, "AttributeError")
                    [] Empty(fetched.ret) ->
                           Finished(got, 400,
                                    "No articles available for briefing")
                    [] fetched.ret.kind = "null" ->
                           Finished(got, 500, "TypeError")
                    [] OTHER ->
                           Finished([got EXCEPT !.sumCalls = Len(summaries)],
                                    500, BriefingArticle(items[bad]).exc)] :
            data \in {d \in GetJson(body.json) :
                         \/ d # "dict"
                         \/ Empty(fetched.ret)
                         \/ fetched.ret.kind = "null"
                         \/ bad # 0}}
        \cup
        {[go |-> TRUE,
          rec |-> [got EXCEPT !.sumCalls = Len(summaries),
                              !.lang = LangCode(language)]] :
            data \in {d \in GetJson(body.json) :
                         /\ d = "dict"
                         /\ ~Empty(fetched.ret)
                         /\ fetched.ret.kind = "list"
                         /\ bad = 0}}

BriefingOutcomes ==
    UNION {BriefingPrepare(body, p1, p2, llm) :
              body \in BriefingBodies, p1 \in Responses, p2 \in Responses,
              llm \in LlmStates}

----------------------------------------------------------------------------
(* generate_tts and the response *)

\* A temporary file opened under a random name without O_EXCL: any name.
AnyNames(d) == Names

\* tempfile.NamedTemporaryFile(delete=False, suffix=".mp3") opens a random
\* name with O_EXCL and tries another name when the file exists: the names
\* it can end up creating are the ones no file has.
FreshNames(d) == {n \in Names : d[n].owner = 0}

\* The message of the 500 response when generate_tts returns None.
TtsFailure(handler) ==
    IF handler = "tts" THEN "TTS generation failed"
    ELSE "Failed to generate audio briefing"

\* Lines 86-89, entered by request r whose handler reached the call with
\* the record rec.  Either the gTTS constructor or NamedTemporaryFile
\* raises, generate_tts returns None and the handler answers 500, or an
\* empty file is created.
GenerateTtsBegin(r, rec) ==
    LET called == [rec EXCEPT !.ttsCalls = 1]
    IN  \/ /\ req' = [req EXCEPT ![r] =
                        Finished(called, 500, TtsFailure(rec.handler))]
           /\ UNCHANGED disk
        \/ \E n \in FreshNames(disk) :
              /\ disk' = [disk EXCEPT ![n] = [owner |-> r, data |-> 0]]
              /\ req' = [req EXCEPT ![r] =
                           [called EXCEPT !.pc = "saving", !.path = n]]

\* POST /tts arrives as request r.
TtsRequest(r) ==
    /\ req[r].pc = "idle"
    /\ \E o \in TtsOutcomes :
          IF o.go THEN GenerateTtsBegin(r, o.rec)
          ELSE req' = [req EXCEPT ![r] = o.rec] /\ UNCHANGED disk
    /\ UNCHANGED <<fetch, news, item>>

\* POST /briefing arrives as request r.
BriefingRequest(r) ==
    /\ req[r].pc = "idle"
    /\ \E o \in BriefingOutcomes :
          IF o.go THEN GenerateTtsBegin(r, o.rec)
          ELSE req' = [req EXCEPT ![r] = o.rec] /\ UNCHANGED disk
    /\ UNCHANGED <<fetch, news, item>>

\* Lines 90-95 and the rest of the handler.  tts.save writes the audio to
\* the file and the handler opens it for the response (send_file), or
\* tts.save raises: generate_tts returns None without removing the file it
\* created, and the handler answers 500.
SaveAndRespond(r) ==
    /\ req[r].pc = "saving"
    /\ LET n == req[r].path
       IN  \/ /\ disk' = [disk EXCEPT ![n].data = r]
              /\ req' = [req EXCEPT ![r].pc = "sending", ![r].status = 200,
                                    ![r].lang = "none",
                                    ![r].served = disk'[n].data]
           \/ /\ req' = [req EXCEPT ![r] =
                           Finished([req[r] EXCEPT !.path = 0], 500,
                                    TtsFailure(req[r].handler))]
              /\ UNCHANGED disk
    /\ UNCHANGED <<fetch, news, item>>

\* The response is closed, after the body was sent or after the client
\* went away (call_on_close runs in both cases): cleanup runs
\* os.remove(temp_file_path) and swallows the error of a file that is not
\* there.
CloseResponse(r) ==
    /\ req[r].pc = "sending"
    /\ req' = [req EXCEPT ![r].pc = "closed"]
    /\ disk' = [disk EXCEPT ![req[r].path] = [owner |-> 0, data |-> 0]]
    /\ UNCHANGED <<fetch, news, item>>

----------------------------------------------------------------------------
(* SpecAudio: NReq concurrent /tts and /briefing requests *)

InitAudio ==
    /\ req = [r \in Reqs |-> IdleReq]
    /\ disk = [n \in Names |-> [owner |-> 0, data |-> 0]]
    /\ fetch = NoFetch
    /\ news = NoNews
    /\ item = NoItem

NextAudio ==
    \E r \in Reqs :
        \/ TtsRequest(r)
        \/ BriefingRequest(r)
        \/ SaveAndRespond(r)
        \/ CloseResponse(r)

SpecAudio == InitAudio /\ [][NextAudio]_vars

\* The files that generate_tts created during request r and that exist.
FilesOf(r) == {n \in Names : disk[n].owner = r}

\* C1: once the response of a /tts or /briefing request is closed, no file
\* that generate_tts created during the request exists, whatever
\* generate_tts did.
C1_NoFileAfterClose ==
    \A r \in Reqs : req[r].pc = "closed" => FilesOf(r) = {}

\* C2: a /tts request whose body has no usable text (no JSON object, text
\* missing, null or empty) is answered 400 "Missing 'text' in request"
\* and never calls generate_tts.  Stated for the bodies that are JSON, which
\* the handler itself answers.
C2_MissingTextIs400 ==
    \A r \in Reqs :
        (/\ req[r].handler = "tts"
         /\ \/ req[r].json = "null"
            \/ req[r].json = "object" /\ req[r].text \in {Absent, Null, ""})
        => /\ req[r].status = 400
           /\ req[r].error = "Missing 'text' in request"
           /\ req[r].ttsCalls = 0

\* C3: a /briefing request whose fetch_news call yields nothing (an empty
\* list or None) is answered 400, calls neither summarize_article nor
\* generate_tts and creates no temporary file.
C3_EmptyBriefingIs400 ==
    \A r \in Reqs :
        (/\ req[r].handler = "briefing"
         /\ req[r].fetchCalls = 1
         /\ req[r].fetched \in {"None", "[]"})
        => /\ req[r].pc = "closed"
           /\ req[r].status = 400
           /\ req[r].sumCalls = 0
           /\ req[r].ttsCalls = 0
           /\ req[r].path = 0
           /\ FilesOf(r) = {}

\* A briefing whose fetch_news call returned None is answered 400 while
\* another request holds a temporary file.
C3_Witness ==
    \E r, o \in Reqs :
        /\ req[r].handler = "briefing"
        /\ req[r].fetchCalls = 1
        /\ req[r].fetched = "None"
        /\ req[r].status = 400
        /\ req[o].pc = "sending"

\* C10: under every interleaving, a step of a request touches no file of
\* another request: a file is created only under a name that no existing
\* file has, is written and deleted only by the request that created it,
\* and a generate_tts call that succeeds leaves the request with exactly
\* one file, its own, which is the one it serves.
C10_Step ==
    /\ \A n \in Names :
          disk'[n] # disk[n] =>
              \E r \in Reqs :
                  /\ req'[r] # req[r]
                  /\ disk[n].owner \in {0, r}
                  /\ disk'[n].owner \in {0, r}
                  /\ disk'[n].data \in {0, r}
    /\ \A n \in Names :
          (disk'[n].owner # 0 /\ disk'[n].owner # disk[n].owner)
              => disk[n].owner = 0
    /\ \A n \in Names :
          (disk[n].owner # 0 /\ disk'[n].owner = 0) =>
              /\ req[disk[n].owner].pc = "sending"
              /\ req'[disk[n].owner].pc = "closed"
              /\ req[disk[n].owner].path = n
    /\ \A r \in Reqs :
          (req[r].pc = "saving" /\ req'[r].pc = "sending") =>
              /\ {n \in Names : disk'[n].owner = r} = {req'[r].path}
              /\ disk'[req'[r].path].data = r
              /\ req'[r].served = r
              /\ \A o \in Reqs \ {r} :
                    req'[o].pc \in {"saving", "sending"}
                        => req'[o].path # req'[r].path

\* C10: every step of every interleaving of the requests keeps the files of
\* the requests apart, as C10_Step states it.
C10_IndependentFiles == [][C10_Step]_vars

\* A /tts and a /briefing request are being answered at once, each from
\* the file it created and wrote.
C10_Witness ==
    \E r, o \in Reqs :
        /\ r # o
        /\ req[r].pc = "sending"
        /\ req[o].pc = "sending"
        /\ req[r].handler = "tts"
        /\ req[o].handler = "briefing"
        /\ req[r].path # req[o].path
        /\ disk[req[r].path].data = r
        /\ disk[req[o].path].data = o

====
